---- MODULE Spec2Model ----
(***************************************************************************)
(* A model of central-updater (updater.py): the token cache, the windowed  *)
(* fetch of submissions, their reconciliation, the update of the entity    *)
(* table, the three-step publish and the advance of the last_open          *)
(* watermark.                                                              *)
(*                                                                         *)
(* Conventions.  A timestamp string is the pair <<seconds, milliseconds>>  *)
(* of its fixed-width text, so that string order is the lexicographic      *)
(* order of the pair; isoparse turns it into a number of milliseconds and  *)
(* isoformat turns a number back into text.  Python's None (JSON null) is  *)
(* the value None; pandas' NaN is the value NaN.                           *)
(***************************************************************************)
EXTENDS Integers, Sequences, FiniteSets, TLC

VARIABLES
    cache,      \* the file cache.json: absent, malformed, or a JSON object
    call,       \* the last completed call of a function of updater.py
    recon,      \* a reconciliation of given responses: its inputs and results
    pc,         \* the place of main: "idle" between two runs
    run,        \* the local variables of main and what the run did so far
    server      \* Central: its clock, submissions, drafts and attachments

vars == <<cache, call, recon, pc, run, server>>

----------------------------------------------------------------------------
(* Values *)

None == "None"

Tokens == {"t1", "t2"}

Truthy(v) == v # None /\ v # ""

EPOCH == <<0, 0>>

NoFile == [state |-> "absent", doc |-> <<>>]

Malformed == [state |-> "malformed", doc |-> <<>>]

Doc(d) == [state |-> "ok", doc |-> d]

DocSet(d, key, value) ==
    [x \in (DOMAIN d) \cup {key} |-> IF x = key THEN value ELSE d[x]]

----------------------------------------------------------------------------
(* The cache file *)

\* a write that does not load the file first
write_to_cache_without_load(c, key, value) ==
    IF c.state = "malformed"
    THEN [raised |-> TRUE, cache |-> c]
    ELSE [raised |-> FALSE, cache |-> Doc(key :> value)]

write_to_cache(c, key, value) ==
    IF c.state = "absent"
    THEN [raised |-> FALSE, cache |-> Doc(key :> value)]
    ELSE IF c.state = "malformed"
    THEN [raised |-> TRUE, cache |-> c]
    ELSE [raised |-> FALSE, cache |-> Doc(DocSet(c.doc, key, value))]

\* a get_last_update_timestamp that reads a key the cache never has
get_last_update_timestamp_wrong_key(c) ==
    IF c.state = "malformed" THEN [raised |-> TRUE, value |-> EPOCH]
    ELSE [raised |-> FALSE, value |-> EPOCH]

get_last_update_timestamp(c) ==
    IF c.state = "absent" THEN [raised |-> FALSE, value |-> EPOCH]
    ELSE IF c.state = "malformed" THEN [raised |-> TRUE, value |-> EPOCH]
    ELSE IF "last_open" \notin DOMAIN c.doc THEN [raised |-> FALSE, value |-> EPOCH]
    ELSE [raised |-> FALSE, value |-> c.doc["last_open"]]

----------------------------------------------------------------------------
(* Token acquisition *)

ProbeResponses ==
    {[raised |-> FALSE, ok |-> TRUE], [raised |-> FALSE, ok |-> FALSE],
     [raised |-> TRUE, ok |-> FALSE]}

LoginResponses ==
    {[raised |-> FALSE, status |-> 200, token |-> t] : t \in Tokens}
    \cup {[raised |-> FALSE, status |-> 401, token |-> None],
          [raised |-> TRUE, status |-> 0, token |-> None]}

get_verified_cached_token(configured, c, probe) ==
    IF ~configured
    THEN [raised |-> FALSE, value |-> None, calls |-> <<>>]
    ELSE IF c.state = "absent"
    THEN [raised |-> FALSE, value |-> None, calls |-> <<>>]
    ELSE IF c.state = "malformed"
    THEN [raised |-> TRUE, value |-> None, calls |-> <<>>]
    ELSE IF "token" \notin DOMAIN c.doc
    THEN [raised |-> FALSE, value |-> None, calls |-> <<>>]
    ELSE IF probe.raised
    THEN [raised |-> TRUE, value |-> None, calls |-> <<"probe">>]
    ELSE IF probe.ok
    THEN [raised |-> FALSE, value |-> c.doc["token"], calls |-> <<"probe">>]
    ELSE [raised |-> FALSE, value |-> None, calls |-> <<"probe">>]

get_new_token(login) ==
    IF login.raised
    THEN [raised |-> TRUE, value |-> None, calls |-> <<"login">>]
    ELSE IF login.status = 200
    THEN [raised |-> FALSE, value |-> login.token, calls |-> <<"login">>]
    ELSE [raised |-> FALSE, value |-> None, calls |-> <<"login">>]

\* a get_token that caches what the cache lookup gave, before the login
get_token_caching_the_lookup(configured, c, probe, login) ==
    LET cached == get_verified_cached_token(configured, c, probe)
        fresh  == get_new_token(login)
        w      == IF configured THEN write_to_cache(c, "token", cached.value).cache
                  ELSE c
    IN  IF cached.raised
        THEN [kind |-> "raise", token |-> None, cache |-> c,
              calls |-> cached.calls, source |-> "none"]
        ELSE IF Truthy(cached.value)
        THEN [kind |-> "return", token |-> cached.value, cache |-> w,
              calls |-> cached.calls, source |-> "cache"]
        ELSE IF fresh.raised
        THEN [kind |-> "raise", token |-> None, cache |-> c,
              calls |-> cached.calls \o fresh.calls, source |-> "none"]
        ELSE [kind |-> IF Truthy(fresh.value) THEN "return" ELSE "exit",
              token |-> fresh.value, cache |-> w,
              calls |-> cached.calls \o fresh.calls, source |-> "login"]

\* a get_token that logs in before it looks at what the cache gave
get_token_always_login(configured, c, probe, login) ==
    LET cached == get_verified_cached_token(configured, c, probe)
        fresh  == get_new_token(login)
        token  == IF Truthy(cached.value) THEN cached.value ELSE fresh.value
        w      == IF configured THEN write_to_cache(c, "token", token).cache ELSE c
    IN  IF cached.raised
        THEN [kind |-> "raise", token |-> None, cache |-> c,
              calls |-> cached.calls, source |-> "none"]
        ELSE IF fresh.raised
        THEN [kind |-> "raise", token |-> None, cache |-> c,
              calls |-> cached.calls \o fresh.calls, source |-> "none"]
        ELSE [kind |-> IF Truthy(token) THEN "return" ELSE "exit",
              token |-> token, cache |-> w,
              calls |-> cached.calls \o fresh.calls,
              source |-> IF Truthy(cached.value) THEN "cache" ELSE "login"]

\* kind: "return" (a token), "exit" (SystemExit) or "raise" (any other exception)
get_token(configured, c, probe, login) ==
    LET cached == get_verified_cached_token(configured, c, probe)
        fresh  == get_new_token(login)
    IN  IF cached.raised
        THEN [kind |-> "raise", token |-> None, cache |-> c,
              calls |-> cached.calls, source |-> "none"]
        ELSE IF Truthy(cached.value)
        THEN LET w == IF configured THEN write_to_cache(c, "token", cached.value).cache
                      ELSE c
             IN  [kind |-> "return", token |-> cached.value, cache |-> w,
                  calls |-> cached.calls, source |-> "cache"]
        ELSE IF fresh.raised
        THEN [kind |-> "raise", token |-> None, cache |-> c,
              calls |-> cached.calls \o fresh.calls, source |-> "none"]
        ELSE LET w == IF configured THEN write_to_cache(c, "token", fresh.value).cache
                      ELSE c
             IN  [kind |-> IF Truthy(fresh.value) THEN "return" ELSE "exit",
                  token |-> fresh.value, cache |-> w,
                  calls |-> cached.calls \o fresh.calls, source |-> "login"]

----------------------------------------------------------------------------
(* Timestamps *)

MsPerSec == 1000

\* dateutil's isoparse: the text <<seconds, milliseconds>> as milliseconds
isoparse(text) == text[1] * MsPerSec + text[2]

\* an isoformat that writes whole seconds
isoformat_seconds(ms) == <<ms \div MsPerSec, 0>>

\* datetime.isoformat: milliseconds as text
isoformat(ms) == <<ms \div MsPerSec, ms % MsPerSec>>

\* the order of Python strings on timestamp texts of one width
StrLeq(a, b) == a[1] < b[1] \/ (a[1] = b[1] /\ a[2] <= b[2])

----------------------------------------------------------------------------
(* Configuration (config.json) *)

KEY == "name"

DATE == "__system/submissionDate"

\* config['entity']['updated_by']: form_id and fields of every update form
updated_by ==
    << [form_id |-> "form1", fields |-> {"grp/f1"}],
       [form_id |-> "form2", fields |-> {"f2"}] >>

\* config['entity']['attached_to']
attached_to == <<"dest1", "dest2">>

\* x.rsplit('/', 1)[-1]
Leaf(col) ==
    IF col = "__system/submissionDate" THEN "submissionDate"
    ELSE IF col = "grp/f1" THEN "f1"
    ELSE IF col = "meta/instanceID" THEN "instanceID"
    ELSE col

----------------------------------------------------------------------------
(* Data frames: a set of column names and a sequence of rows, every row a   *)
(* function on the columns                                                  *)

NaN == "NaN"

NoFrame == [none |-> TRUE, cols |-> {}, rows |-> <<>>]

Frame(cols, rows) == [none |-> FALSE, cols |-> cols, rows |-> rows]

Project(obj, cols) == [c \in cols |-> obj[c]]

RECURSIVE MapProject(_, _)
MapProject(objs, cols) ==
    IF objs = <<>> THEN <<>>
    ELSE <<Project(Head(objs), cols)>> \o MapProject(Tail(objs), cols)

\* response: kind "raise" (the request raised), "not json" (a body json()
\* cannot decode), "malformed" (a JSON object without 'value') or "value"
\* with the list of submissions of the body
get_form_updates(form, response, key) ==
    IF response.kind \in {"raise", "not json"}
    THEN [raised |-> TRUE, frame |-> NoFrame]
    ELSE IF response.kind = "malformed"
    THEN [raised |-> FALSE, frame |-> NoFrame]
    ELSE IF Len(response.value) = 0
    THEN [raised |-> FALSE, frame |-> NoFrame]
    ELSE [raised |-> FALSE,
          frame |-> Frame(form.fields \cup {key, DATE},
                          MapProject(response.value, form.fields \cup {key, DATE}))]

Fill(row, cols) == [c \in cols |-> IF c \in DOMAIN row THEN row[c] ELSE NaN]

Matches(l, r, common) == \A c \in common : l[c] = r[c]

RECURSIVE JoinRow(_, _, _, _)
JoinRow(l, rrows, common, cols) ==
    IF rrows = <<>> THEN <<>>
    ELSE (IF Matches(l, Head(rrows), common)
          THEN <<Fill(l @@ Head(rrows), cols)>> ELSE <<>>)
         \o JoinRow(l, Tail(rrows), common, cols)

RECURSIVE JoinLeft(_, _, _, _)
JoinLeft(lrows, rrows, common, cols) ==
    IF lrows = <<>> THEN <<>>
    ELSE LET j == JoinRow(Head(lrows), rrows, common, cols)
         IN  (IF j = <<>> THEN <<Fill(Head(lrows), cols)>> ELSE j)
             \o JoinLeft(Tail(lrows), rrows, common, cols)

RECURSIVE RightOnly(_, _, _, _)
RightOnly(lrows, rrows, common, cols) ==
    IF rrows = <<>> THEN <<>>
    ELSE (IF \E i \in 1..Len(lrows) : Matches(lrows[i], Head(rrows), common)
          THEN <<>> ELSE <<Fill(Head(rrows), cols)>>)
         \o RightOnly(lrows, Tail(rrows), common, cols)

\* DataFrame.merge(other, how="outer"): a join on the common columns
merge_outer(left, right) ==
    LET common == left.cols \cap right.cols
        cols   == left.cols \cup right.cols
    IN  Frame(cols, JoinLeft(left.rows, right.rows, common, cols)
                    \o RightOnly(left.rows, right.rows, common, cols))

RenameRow(row) ==
    [c \in {Leaf(x) : x \in DOMAIN row} |->
        row[CHOOSE x \in DOMAIN row : Leaf(x) = c]]

RECURSIVE MapRename(_)
MapRename(rows) ==
    IF rows = <<>> THEN <<>> ELSE <<RenameRow(Head(rows))>> \o MapRename(Tail(rows))

\* DataFrame.rename(columns=lambda x: x.rsplit('/', 1)[-1])
rename(frame) == Frame({Leaf(c) : c \in frame.cols}, MapRename(frame.rows))

\* the body of the loop of get_updates: updates after one more form
merge_form(updates, form_updates) ==
    IF form_updates.none THEN updates
    ELSE IF updates.none THEN form_updates
    ELSE merge_outer(updates, form_updates)

\* the orders in which the rows at the indices can come out: at every place
\* any of the remaining rows of greatest submissionDate
RECURSIVE Descending(_, _)
Descending(rows, indices) ==
    IF indices = {} THEN {<<>>}
    ELSE UNION {{<<rows[i]>> \o rest : rest \in Descending(rows, indices \ {i})} :
                   i \in {m \in indices : \A j \in indices :
                             StrLeq(rows[j]["submissionDate"], rows[m]["submissionDate"])}}

\* sort_values('submissionDate', ascending=False): the sort is not stable,
\* rows of one submissionDate come out in any order
sort_values(rows) == Descending(rows, 1..Len(rows))

RECURSIVE KeepFirst(_, _, _)
KeepFirst(rows, key, seen) ==
    IF rows = <<>> THEN <<>>
    ELSE IF Head(rows)[key] \in seen THEN KeepFirst(Tail(rows), key, seen)
    ELSE <<Head(rows)>> \o KeepFirst(Tail(rows), key, seen \cup {Head(rows)[key]})

\* drop_duplicates(subset=[key], keep='first')
drop_duplicates(rows, key) == KeepFirst(rows, key, {})

\* the end of get_updates without the sort
deduplicate_unsorted(updates, key) ==
    IF updates.none THEN {NoFrame}
    ELSE LET renamed == rename(updates)
         IN  {Frame(renamed.cols, drop_duplicates(renamed.rows, key))}

\* the end of get_updates without the return of None
deduplicate_without_none(updates, key) ==
    LET renamed == rename(updates)
    IN  {Frame(renamed.cols, drop_duplicates(sorted, key)) :
            sorted \in sort_values(renamed.rows)}

\* the end of get_updates: the frames it can return for the merged updates
deduplicate(updates, key) ==
    IF updates.none THEN {NoFrame}
    ELSE LET renamed == rename(updates)
         IN  {Frame(renamed.cols, drop_duplicates(sorted, key)) :
                 sorted \in sort_values(renamed.rows)}

RECURSIVE FetchAll(_, _, _, _)
FetchAll(updates, forms, responses, key) ==
    IF forms = <<>> THEN [raised |-> FALSE, frame |-> updates]
    ELSE LET form_updates == get_form_updates(Head(forms), Head(responses), key)
         IN  IF form_updates.raised THEN [raised |-> TRUE, frame |-> NoFrame]
             ELSE FetchAll(merge_form(updates, form_updates.frame),
                           Tail(forms), Tail(responses), key)

\* get_updates for the responses of the forms: the results it can have
get_updates(forms, responses, key) ==
    LET fetched == FetchAll(NoFrame, forms, responses, key)
    IN  IF fetched.raised THEN {[raised |-> TRUE, frame |-> NoFrame]}
        ELSE {[raised |-> FALSE, frame |-> f] : f \in deduplicate(fetched.frame, key)}

----------------------------------------------------------------------------
(* The entity table and the watermark *)

IsNA(v) == v = NaN \/ v = None

\* an update that also writes the cells without a value
df_update_with_na(entities, updates, key) ==
    [n \in DOMAIN entities |->
        [c \in DOMAIN entities[n] |->
            IF \E i \in 1..Len(updates.rows) :
                   updates.rows[i][key] = n /\ c \in updates.cols \ {key}
            THEN LET i == CHOOSE i \in 1..Len(updates.rows) :
                              updates.rows[i][key] = n
                 IN  updates.rows[i][c]
            ELSE entities[n][c]]]

\* entities.update(updates.set_index(key)): entities is a function from the
\* index (the name) to the row
df_update(entities, updates, key) ==
    [n \in DOMAIN entities |->
        [c \in DOMAIN entities[n] |->
            IF \E i \in 1..Len(updates.rows) :
                   /\ updates.rows[i][key] = n
                   /\ c \in updates.cols \ {key}
                   /\ ~IsNA(updates.rows[i][c])
            THEN LET i == CHOOSE i \in 1..Len(updates.rows) :
                              updates.rows[i][key] = n
                 IN  updates.rows[i][c]
            ELSE entities[n][c]]]

\* pd.read_csv: an empty cell is NaN
read_csv(csv) ==
    [n \in DOMAIN csv |-> [c \in DOMAIN csv[n] |->
        IF csv[n][c] = "" THEN NaN ELSE csv[n][c]]]

\* DataFrame.to_csv: NaN is an empty cell
to_csv(entities) ==
    [n \in DOMAIN entities |-> [c \in DOMAIN entities[n] |->
        IF IsNA(entities[n][c]) THEN "" ELSE entities[n][c]]]

\* updates['submissionDate'].max(): the greatest string
column_max(rows) ==
    LET dates == {rows[i]["submissionDate"] : i \in 1..Len(rows)}
    IN  CHOOSE d \in dates : \A e \in dates : StrLeq(e, d)

\* the latest submissionDate without the offset
latest_update_timestamp_no_offset(updates) == isoparse(column_max(updates.rows))

\* isoparse(updates['submissionDate'].max()) + dt.timedelta(milliseconds=1)
latest_update_timestamp(updates) == isoparse(column_max(updates.rows)) + 1

----------------------------------------------------------------------------
(* The responses of the update forms and the entity table *)

\* the number of submissions the forms return in all
MaxRows == 3

Names == {"k1", "k2"}

Dates == {<<0, 999>>, <<1, 0>>}

FieldValues(form) == IF form.form_id = "form1" THEN {"x", None} ELSE {"y"}

\* the submissions a form can return, as json_normalize(sep='/') flattens them
Submissions(form) ==
    {[c \in form.fields \cup {KEY, DATE, "meta/instanceID"} |->
         IF c = KEY THEN n ELSE IF c = DATE THEN d
         ELSE IF c = "meta/instanceID" THEN "uuid" ELSE v] :
        n \in Names, d \in Dates, v \in FieldValues(form)}

Responses(form) ==
    {[kind |-> "raise", value |-> <<>>], [kind |-> "not json", value |-> <<>>],
     [kind |-> "malformed", value |-> <<>>]}
    \cup {[kind |-> "value", value |-> list] :
             list \in UNION {[1..n -> Submissions(form)] : n \in 0..MaxRows}}

\* an attachment: the cells of every entity, by name
EntityTable ==
    [n \in {"k0", "k1"} |-> [c \in {"f1", "f2", "label"} |->
        IF n = "k1" /\ c = "f2" THEN "" ELSE IF c = "label" THEN "b" ELSE "a"]]

----------------------------------------------------------------------------
(* Central, as the requests of the updater see it *)

MaxSubmissions == 2

MaxTicks == 1

MaxRuns == 2

Forms == {updated_by[i].form_id : i \in 1..Len(updated_by)}

Destinations == {attached_to[i] : i \in 1..Len(attached_to)}

\* the attachment of the other destinations before the first run
OtherTable ==
    [n \in {"k0", "k1"} |-> [c \in {"f1", "f2", "label"} |-> "c"]]

InitServer ==
    [clock |-> MsPerSec - 2,
     submissions |-> {},
     draft |-> [d \in Destinations |-> [open |-> FALSE, attachment |-> <<>>]],
     published |-> [d \in Destinations |->
                       IF d = attached_to[1] THEN EntityTable ELSE OtherTable]]

\* a submission of the server as the object of the response
SubmissionJson(s) ==
    [c \in {KEY, DATE, "meta/instanceID", "grp/f1", "f2"} |->
        IF c = KEY THEN s.name
        ELSE IF c = DATE THEN <<s.time \div MsPerSec, s.time % MsPerSec>>
        ELSE IF c = "meta/instanceID" THEN "uuid"
        ELSE s.value]

RECURSIVE NewestFirst(_)
NewestFirst(subs) ==
    IF subs = {} THEN <<>>
    ELSE LET s == CHOOSE x \in subs : \A y \in subs : y.id <= x.id
         IN  <<SubmissionJson(s)>> \o NewestFirst(subs \ {s})

\* without the filter on the submission date
SubmissionsQuery_no_date_filter(submissions, form, last_update_timestamp) ==
    {s \in submissions : s.form = form.form_id /\ ~s.rejected}

\* $filter=__system/submissionDate gt {last_update_timestamp} and
\* __system/reviewState ne 'rejected', on the submissions of the form
SubmissionsQuery(submissions, form, last_update_timestamp) ==
    {s \in submissions :
        /\ s.form = form.form_id
        /\ s.time > isoparse(last_update_timestamp)
        /\ ~s.rejected}

\* the responses the request of get_form_updates can get
FormResponses(form, last_update_timestamp) ==
    {[kind |-> "raise", value |-> <<>>],
     [kind |-> "not json", value |-> <<>>],
     [kind |-> "malformed", value |-> <<>>],
     [kind |-> "value",
      value |-> NewestFirst(SubmissionsQuery(server.submissions, form,
                                             last_update_timestamp))]}

Outcomes == {"ok", "error", "raise"}

\* the local variables of main, and on record: the requests it sent
\* (requested, and log for those of upload), an error status among the
\* answers to upload (failed), the submissions the forms returned to it
\* (fetched), to the runs before it (seen) and to the runs before it that
\* wrote last_open (processed), the last_open the last such run wrote
\* (persisted)
NoRun ==
    [outcome |-> "none", token |-> None, last_update_timestamp |-> EPOCH,
     i |-> 1, updates |-> NoFrame, csv |-> <<>>, d |-> 1,
     requested |-> {}, failed |-> FALSE, runs |-> 0,
     log |-> <<>>, fetched |-> {}, seen |-> {}, processed |-> {},
     persisted |-> <<>>]

----------------------------------------------------------------------------
(* The functions of the cache and of the token, called one at a time on    *)
(* any cache file (the calls of test_updater.py)                            *)

Stamps == {EPOCH, <<0, 999>>, <<1, 0>>}

TokenValues == Tokens \cup {None}

\* the JSON objects a cache file holds: any of token, last_open and one key
\* the updater does not use
Entries(key, values) == {<<>>} \cup {key :> v : v \in values}

Docs ==
    {t @@ l @@ f : t \in Entries("token", TokenValues),
                   l \in Entries("last_open", Stamps),
                   f \in Entries("foo", {"bar"})}

CacheFiles == {NoFile, Malformed} \cup {Doc(d) : d \in Docs}

WriteArgs ==
    {<<"token", t>> : t \in TokenValues}
    \cup {<<"last_open", s>> : s \in Stamps}
    \cup {<<"foo", "bar">>, <<"foo", "baz">>, <<"bar", "baz">>}

NoCall == [op |-> "none"]

NoRecon == [stage |-> "none"]

InitCache ==
    /\ cache \in CacheFiles
    /\ call = NoCall
    /\ recon = NoRecon
    /\ pc = "idle"
    /\ run = NoRun
    /\ server = InitServer

CallWriteToCache ==
    \E args \in WriteArgs :
        LET r == write_to_cache(cache, args[1], args[2])
        IN  /\ cache' = r.cache
            /\ call' = [op |-> "write_to_cache", pre |-> cache, key |-> args[1],
                        value |-> args[2], raised |-> r.raised]
            /\ UNCHANGED <<recon, pc, run, server>>

CallGetLastUpdateTimestamp ==
    LET r == get_last_update_timestamp(cache)
    IN  /\ call' = [op |-> "get_last_update_timestamp", pre |-> cache,
                    raised |-> r.raised, value |-> r.value]
        /\ UNCHANGED <<cache, recon, pc, run, server>>

CallGetVerifiedCachedToken ==
    \E configured \in BOOLEAN, probe \in ProbeResponses :
        LET r == get_verified_cached_token(configured, cache, probe)
        IN  /\ call' = [op |-> "get_verified_cached_token", pre |-> cache,
                        configured |-> configured, probe |-> probe,
                        raised |-> r.raised, value |-> r.value]
            /\ UNCHANGED <<cache, recon, pc, run, server>>

CallGetToken ==
    \E configured \in BOOLEAN, probe \in ProbeResponses, login \in LoginResponses :
        LET r == get_token(configured, cache, probe, login)
        IN  /\ cache' = r.cache
            /\ call' = [op |-> "get_token", pre |-> cache,
                        configured |-> configured, probe |-> probe, login |-> login,
                        kind |-> r.kind, token |-> r.token, source |-> r.source,
                        calls |-> r.calls]
            /\ UNCHANGED <<recon, pc, run, server>>

NextCache ==
    \/ CallWriteToCache
    \/ CallGetLastUpdateTimestamp
    \/ CallGetVerifiedCachedToken
    \/ CallGetToken

SpecCache == InitCache /\ [][NextCache]_vars

----------------------------------------------------------------------------
(* Reconciliation, update of the entities and the next watermark, on any   *)
(* responses of the update forms and any entity table                       *)

InitRecon ==
    /\ cache = NoFile
    /\ call = NoCall
    /\ pc = "idle"
    /\ run = NoRun
    /\ server = InitServer
    /\ \E r1 \in Responses(updated_by[1]), r2 \in Responses(updated_by[2]),
          swap \in BOOLEAN :
          /\ Len(r1.value) + Len(r2.value) <= MaxRows
          /\ recon = [stage |-> "responses",
                   forms |-> IF swap THEN <<updated_by[2], updated_by[1]>> ELSE updated_by,
                   responses |-> IF swap THEN <<r2, r1>> ELSE <<r1, r2>>,
                   attachment |-> EntityTable,
                   updates |-> NoFrame, entities |-> <<>>, csv |-> <<>>,
                   last_open |-> EPOCH]

\* lines 179-183 of main
ReconGetUpdates ==
    /\ recon.stage = "responses"
    /\ \E r \in get_updates(recon.forms, recon.responses, KEY) :
          recon' = [recon EXCEPT
                       !.stage = IF r.raised THEN "raised"
                                 ELSE IF r.frame.none THEN "no updates"
                                 ELSE "updates",
                       !.updates = r.frame]
    /\ UNCHANGED <<cache, call, pc, run, server>>

\* lines 187-190 of main
ReconUpdateEntities ==
    /\ recon.stage = "updates"
    /\ LET entities == df_update(read_csv(recon.attachment), recon.updates, KEY)
       IN  recon' = [recon EXCEPT !.stage = "updated",
                                  !.entities = entities,
                                  !.csv = to_csv(entities)]
    /\ UNCHANGED <<cache, call, pc, run, server>>

\* lines 193-196 of main
ReconNextWatermark ==
    /\ recon.stage = "updated"
    /\ recon' = [recon EXCEPT
                    !.stage = "done",
                    !.last_open = isoformat(latest_update_timestamp(recon.updates))]
    /\ UNCHANGED <<cache, call, pc, run, server>>

NextRecon ==
    \/ ReconGetUpdates
    \/ ReconUpdateEntities
    \/ ReconNextWatermark

SpecRecon == InitRecon /\ [][NextRecon]_vars

----------------------------------------------------------------------------
(* main, request by request *)

Init ==
    /\ cache \in {NoFile, Malformed,
                 Doc("token" :> "t1" @@ "foo" :> "bar"
                     @@ "last_open" :> <<0, MsPerSec - 3>>)}
    /\ call = NoCall
    /\ recon = NoRecon
    /\ pc = "idle"
    /\ run = [NoRun EXCEPT !.persisted =
                 IF cache.state = "ok" THEN <<cache.doc["last_open"]>> ELSE <<>>]
    /\ server = InitServer

\* the places of main at which a step of the server shows: between two runs
\* and between the requests to two forms
Between == pc = "idle" \/ (pc = "fetch" /\ 1 < run.i /\ run.i <= Len(updated_by))

\* a new submission to a form, dated by the clock of the server
Submit ==
    /\ Between
    /\ Cardinality(server.submissions) < MaxSubmissions
    /\ \E form \in Forms, name \in Names, rejected \in BOOLEAN :
          server' = [server EXCEPT !.submissions = @ \cup
              {[id |-> Cardinality(server.submissions) + 1, form |-> form,
                name |-> name, time |-> server.clock,
                value |-> IF form = "form1" THEN "x" ELSE "y",
                rejected |-> rejected]}]
    /\ UNCHANGED <<cache, call, recon, pc, run>>

Tick ==
    /\ Between
    /\ server.clock < MsPerSec - 2 + MaxTicks
    /\ server' = [server EXCEPT !.clock = @ + 1]
    /\ UNCHANGED <<cache, call, recon, pc, run>>

\* main is left: its local variables are gone, what it did stays on record
Ended(r, outcome) ==
    [r EXCEPT !.outcome = outcome, !.token = None, !.i = 1, !.updates = NoFrame,
              !.csv = <<>>, !.d = 1, !.log = <<>>, !.fetched = {},
              !.seen = @ \cup r.fetched,
              !.processed = IF outcome = "success" THEN @ \cup r.fetched ELSE @]

Abort(outcome, requests) ==
    /\ pc' = "idle"
    /\ run' = Ended([run EXCEPT !.requested = @ \cup requests], outcome)

\* line 175: token = get_token(config['server'], cache_file=CACHE)
MainGetToken ==
    /\ pc = "idle"
    /\ run.runs < MaxRuns
    /\ \E probe \in ProbeResponses, login \in LoginResponses :
          LET r == get_token(TRUE, cache, probe, login)
              started == [NoRun EXCEPT !.outcome = "running", !.runs = run.runs + 1,
                                       !.seen = run.seen,
                                       !.processed = run.processed,
                                       !.persisted = run.persisted,
                                       !.token = r.token,
                                       !.requested = {r.calls[n] : n \in 1..Len(r.calls)}]
          IN  /\ cache' = r.cache
              /\ IF r.kind = "return"
                 THEN pc' = "last_update" /\ run' = started
                 ELSE pc' = "idle" /\ run' = Ended(started, r.kind)
    /\ UNCHANGED <<call, recon, server>>

\* line 177: last_update_timestamp = get_last_update_timestamp(CACHE)
MainGetLastUpdateTimestamp ==
    /\ pc = "last_update"
    /\ LET r == get_last_update_timestamp(cache)
       IN  IF r.raised THEN Abort("raise", {})
           ELSE /\ pc' = "fetch"
                /\ run' = [run EXCEPT !.last_update_timestamp = r.value]
    /\ UNCHANGED <<cache, call, recon, server>>

\* lines 122-128: one turn of the loop of get_updates
MainGetFormUpdates ==
    /\ pc = "fetch"
    /\ run.i <= Len(updated_by)
    /\ \E response \in FormResponses(updated_by[run.i], run.last_update_timestamp) :
          LET r == get_form_updates(updated_by[run.i], response, KEY)
              request == {updated_by[run.i].form_id}
              returned == IF response.kind # "value" THEN {}
                          ELSE {s.id : s \in SubmissionsQuery(server.submissions,
                                            updated_by[run.i], run.last_update_timestamp)}
          IN  IF r.raised THEN Abort("raise", request)
              ELSE /\ pc' = "fetch"
                   /\ run' = [run EXCEPT
                                 !.i = @ + 1,
                                 !.updates = merge_form(@, r.frame),
                                 !.requested = @ \cup request,
                                 !.fetched = @ \cup returned]
    /\ UNCHANGED <<cache, call, recon, server>>

\* lines 130-135 and 181-183: the end of get_updates, and no updates
MainDeduplicate ==
    /\ pc = "fetch"
    /\ run.i > Len(updated_by)
    /\ \E updates \in deduplicate(run.updates, KEY) :
          IF updates.none THEN Abort("no updates", {})
          ELSE /\ pc' = "entities"
               /\ run' = [run EXCEPT !.updates = updates]
    /\ UNCHANGED <<cache, call, recon, server>>

\* lines 187-190: the entities of attached_to[0], updated, as csv
MainUpdateEntities ==
    /\ pc = "entities"
    /\ \E outcome \in {"ok", "raise"} :
          IF outcome = "raise" THEN Abort("raise", {"attachment"})
          ELSE LET entities == read_csv(server.published[attached_to[1]])
               IN  /\ pc' = "draft"
                   /\ run' = [run EXCEPT
                                 !.csv = to_csv(df_update(entities, run.updates, KEY)),
                                 !.requested = @ \cup {"attachment"}]
    /\ UNCHANGED <<cache, call, recon, server>>

\* an upload that goes to the next destination once the draft is opened
Answered_next_after_draft(step, outcome, next) ==
    /\ pc' = next
    /\ run' = [run EXCEPT
                  !.requested = @ \cup {attached_to[run.d]},
                  !.log = Append(@, <<attached_to[run.d], step>>),
                  !.failed = @ \/ outcome = "error",
                  !.d = IF step = "draft" THEN @ + 1 ELSE @]

\* the answer to a request of upload: failed records an answer that is an
\* error status, requested the destinations a request was sent for
Answered(step, outcome, next) ==
    /\ pc' = next
    /\ run' = [run EXCEPT
                  !.requested = @ \cup {attached_to[run.d]},
                  !.log = Append(@, <<attached_to[run.d], step>>),
                  !.failed = @ \/ outcome = "error",
                  !.d = IF step = "publish" THEN @ + 1 ELSE @]

\* line 164: requests.post(draft)
UploadDraft ==
    /\ pc = "draft"
    /\ run.d <= Len(attached_to)
    /\ \E outcome \in Outcomes :
          LET dest == attached_to[run.d]
          IN  IF outcome = "raise"
              THEN Abort("raise", {dest}) /\ UNCHANGED server
              ELSE /\ Answered("draft", outcome, "attachment")
                   /\ server' = IF outcome = "error" THEN server
                                ELSE [server EXCEPT !.draft[dest] =
                                         [open |-> TRUE,
                                          attachment |-> server.published[dest]]]
    /\ UNCHANGED <<cache, call, recon>>

\* line 165: requests.post(f"{draft}/attachments/{filename}", data=csv)
UploadAttachment ==
    /\ pc = "attachment"
    /\ \E outcome \in Outcomes :
          LET dest == attached_to[run.d]
          IN  /\ outcome = "ok" => server.draft[dest].open
              /\ IF outcome = "raise"
                 THEN Abort("raise", {dest}) /\ UNCHANGED server
                 ELSE /\ Answered("attachment", outcome, "publish")
                      /\ server' = IF outcome = "error" THEN server
                                   ELSE [server EXCEPT !.draft[dest].attachment = run.csv]
    /\ UNCHANGED <<cache, call, recon>>

\* line 166: requests.post(f"{draft}/publish?version=...")
UploadPublish ==
    /\ pc = "publish"
    /\ \E outcome \in Outcomes :
          LET dest == attached_to[run.d]
          IN  /\ outcome = "ok" => server.draft[dest].open
              /\ IF outcome = "raise"
                 THEN Abort("raise", {dest}) /\ UNCHANGED server
                 ELSE /\ Answered("publish", outcome, "draft")
                      /\ server' = IF outcome = "error" THEN server
                                   ELSE [server EXCEPT
                                            !.published[dest] = server.draft[dest].attachment,
                                            !.draft[dest] = [open |-> FALSE, attachment |-> <<>>]]
    /\ UNCHANGED <<cache, call, recon>>

\* lines 193-197: the new last_open, after the loop of upload
MainWriteLastOpen ==
    /\ pc = "draft"
    /\ run.d > Len(attached_to)
    /\ LET last_open == isoformat(latest_update_timestamp(run.updates))
           r == write_to_cache(cache, "last_open", last_open)
       IN  /\ cache' = r.cache
           /\ pc' = "idle"
           /\ run' = IF r.raised THEN Ended(run, "raise")
                      ELSE Ended([run EXCEPT !.persisted = <<last_open>>], "success")
    /\ UNCHANGED <<call, recon, server>>

Next ==
    \/ Submit
    \/ Tick
    \/ MainGetToken
    \/ MainGetLastUpdateTimestamp
    \/ MainGetFormUpdates
    \/ MainDeduplicate
    \/ MainUpdateEntities
    \/ UploadDraft
    \/ UploadAttachment
    \/ UploadPublish
    \/ MainWriteLastOpen

Spec == Init /\ [][Next]_vars

----------------------------------------------------------------------------
(* Claims on the cache and the token *)

\* C1: write_to_cache(file, K', v) on a cache document D gives the document
\* with K' mapped to v, every other key of D at its value in D and no other
\* key; on a file that does not exist it gives exactly {K': v}.
C1_WritePreservesOtherKeys ==
    (call.op = "write_to_cache" /\ call.pre.state # "malformed") =>
        /\ ~call.raised
        /\ cache.state = "ok"
        /\ DOMAIN cache.doc = (DOMAIN call.pre.doc) \cup {call.key}
        /\ cache.doc[call.key] = call.value
        /\ \A K \in (DOMAIN call.pre.doc) \ {call.key} :
               cache.doc[K] = call.pre.doc[K]

C1_Witness ==
    /\ call.op = "write_to_cache"
    /\ call.pre.state = "ok"
    /\ call.key \notin DOMAIN call.pre.doc
    /\ {"token", "last_open"} \subseteq DOMAIN call.pre.doc

\* a cached token exists and its validation probe succeeds
CachedTokenValid(configured, c, probe) ==
    /\ configured
    /\ c.state = "ok"
    /\ "token" \in DOMAIN c.doc
    /\ c.doc["token"] \in Tokens
    /\ probe.ok

\* C2: get_token returns the cached token if and only if a cached token
\* exists and its validation probe succeeds; otherwise it returns the token
\* issued by login, and ends the run with SystemExit if login gives none
\* (stated for the calls in which no request raises).
C2_CachedIffValidElseLogin ==
    (call.op = "get_token" /\ ~call.probe.raised /\ ~call.login.raised) =>
        IF CachedTokenValid(call.configured, call.pre, call.probe)
        THEN /\ call.kind = "return"
             /\ call.source = "cache"
             /\ call.token = call.pre.doc["token"]
        ELSE IF call.login.status = 200
        THEN /\ call.kind = "return"
             /\ call.source = "login"
             /\ call.token = call.login.token
        ELSE call.kind = "exit"

\* the cache gives no usable token: no file, no token key, a probe that
\* fails, or a content that is no JSON object
NoUsableToken(c, probe) ==
    \/ c.state \in {"absent", "malformed"}
    \/ "token" \notin DOMAIN c.doc
    \/ ~probe.ok

\* C3: for every state of the cache (file absent, token key missing, probe
\* failing, malformed content) get_verified_cached_token yields None and
\* get_token goes on to login; neither propagates an error (stated for the
\* calls in which no request raises).
C3_CacheNeverRaises ==
    /\ (/\ call.op = "get_verified_cached_token"
        /\ call.configured
        /\ ~call.probe.raised
        /\ NoUsableToken(call.pre, call.probe))
       => (~call.raised /\ call.value = None)
    /\ (/\ call.op = "get_token"
        /\ call.configured
        /\ ~call.probe.raised
        /\ ~call.login.raised
        /\ NoUsableToken(call.pre, call.probe))
       => (call.kind # "raise" /\ call.source = "login")

\* C4: when a cache file is configured and get_token returns a token, the
\* cache's "token" entry is the returned token and every other key is as it
\* was; when no cache file is configured the cache is not written.
C4_TokenCachedOnReturn ==
    call.op = "get_token" =>
        /\ (call.configured /\ call.kind = "return") =>
               /\ cache.state = "ok"
               /\ DOMAIN cache.doc = (DOMAIN call.pre.doc) \cup {"token"}
               /\ cache.doc["token"] = call.token
               /\ \A K \in (DOMAIN call.pre.doc) \ {"token"} :
                      cache.doc[K] = call.pre.doc[K]
        /\ ~call.configured => cache = call.pre

C4_Witness ==
    /\ call.op = "get_token"
    /\ call.configured
    /\ call.kind = "return"
    /\ call.source = "login"
    /\ call.pre.state = "ok"
    /\ {"token", "last_open", "foo"} \subseteq DOMAIN call.pre.doc
    /\ call.pre.doc["token"] \in Tokens \ {call.token}

----------------------------------------------------------------------------
(* Claims on the reconciliation, the update and the watermark *)

\* the records fetched: form i of the run, place j of its response
Fetched ==
    {p \in (1..Len(recon.forms)) \X (1..MaxRows) : p[2] <= Len(recon.responses[p[1]].value)}

Record(p) == recon.responses[p[1]].value[p[2]]

Reconciled == recon.stage \in {"updates", "updated", "done"}

\* the row of the reconciled table is the fetched record p: its key, its
\* submission date and the fields of its form, and no value of another form
IsRecord(row, p) ==
    /\ row[KEY] = Record(p)[KEY]
    /\ row["submissionDate"] = Record(p)[DATE]
    /\ \A c \in recon.forms[p[1]].fields : row[Leaf(c)] = Record(p)[c]
    /\ \A c \in (DOMAIN row) \ ({KEY, "submissionDate"}
                                 \cup {Leaf(c) : c \in recon.forms[p[1]].fields}) :
           row[c] = NaN

\* C7: the reconciled table has exactly one record for every entity key
\* among the fetched records, and for a key whose latest fetched record is
\* later than every other record of the key, it is that record, whichever
\* form gave it and in whichever order the forms are iterated.
C7_OneLatestRecordPerKey ==
    Reconciled =>
        LET rows == recon.updates.rows
        IN  /\ {rows[i][KEY] : i \in 1..Len(rows)} = {Record(p)[KEY] : p \in Fetched}
            /\ \A i, j \in 1..Len(rows) : rows[i][KEY] = rows[j][KEY] => i = j
            /\ \A p \in Fetched :
                   (\A q \in Fetched \ {p} :
                        Record(q)[KEY] = Record(p)[KEY]
                            => isoparse(Record(q)[DATE]) < isoparse(Record(p)[DATE]))
                   => \E i \in 1..Len(rows) : IsRecord(rows[i], p)

C7_Witness ==
    /\ Reconciled
    /\ \E p, q \in Fetched :
          /\ p[1] = 1 /\ q[1] = 2
          /\ Record(p)[KEY] = Record(q)[KEY]
          /\ isoparse(Record(q)[DATE]) < isoparse(Record(p)[DATE])
          /\ recon.forms[1].form_id = "form2"
    /\ Len(recon.updates.rows) = 2
    /\ Cardinality(Fetched) = 3

Updated == recon.stage \in {"updated", "done"}

\* C8: applying the reconciled updates keeps the set of entity keys, keeps
\* every row whose key is not in the update table, and in a row whose key is
\* in it changes only the columns for which the update row carries a value.
C8_UpdateChangesOnlyGivenCells ==
    Updated =>
        LET before == read_csv(recon.attachment)
            after  == recon.entities
            rows   == recon.updates.rows
        IN  /\ DOMAIN after = DOMAIN before
            /\ \A n \in DOMAIN before :
                   (\A i \in 1..Len(rows) : rows[i][KEY] # n) => after[n] = before[n]
            /\ \A n \in DOMAIN before : \A c \in DOMAIN before[n] :
                   after[n][c] # before[n][c] =>
                       \E i \in 1..Len(rows) :
                           /\ rows[i][KEY] = n
                           /\ c \in recon.updates.cols
                           /\ ~IsNA(rows[i][c])
                           /\ after[n][c] = rows[i][c]

C8_Witness ==
    /\ Updated
    /\ {"f1", "f2"} \subseteq recon.updates.cols
    /\ \E i, j \in 1..Len(recon.updates.rows) :
          /\ recon.updates.rows[i][KEY] = "k1"
          /\ recon.updates.rows[i]["f1"] = "x"
          /\ recon.updates.rows[i]["f2"] = NaN
          /\ recon.updates.rows[j][KEY] = "k2"
    /\ recon.entities["k1"]["f1"] = "x"
    /\ recon.entities["k1"]["f2"] = NaN

\* the latest submission time of the reconciled table, in milliseconds
LatestSubmission ==
    LET times == {isoparse(recon.updates.rows[i]["submissionDate"]) :
                     i \in 1..Len(recon.updates.rows)}
    IN  CHOOSE t \in times : \A u \in times : u <= t

\* C9: the new watermark of a non-empty reconciled table is later than the
\* latest submission time of the table, by exactly one millisecond.
C9_WatermarkOneMsPastLatest ==
    recon.stage = "done" =>
        /\ isoparse(recon.last_open) > LatestSubmission
        /\ isoparse(recon.last_open) = LatestSubmission + 1

C9_Witness ==
    /\ recon.stage = "done"
    /\ Len(recon.updates.rows) = 2
    /\ recon.updates.rows[2]["submissionDate"] = <<0, 999>>
    /\ recon.updates.rows[1]["submissionDate"] = <<1, 0>>
    /\ recon.last_open = <<1, 1>>

----------------------------------------------------------------------------
(* Claims on the runs of main *)

Succeeded == pc = "idle" /\ run.outcome = "success"

\* C5: the last_open a successful run persists is never earlier than the
\* last_open the run read at its start.
C5_WatermarkNeverGoesBack ==
    Succeeded =>
        /\ cache.state = "ok"
        /\ "last_open" \in DOMAIN cache.doc
        /\ isoparse(cache.doc["last_open"]) >= isoparse(run.last_update_timestamp)

C5_Witness ==
    /\ Succeeded
    /\ run.last_update_timestamp = isoformat(MsPerSec - 3)
    /\ cache.doc["last_open"] = <<1, 0>>
    /\ Cardinality(server.submissions) = 2

\* C6: last_open is written only if the draft, the upload and the publish
\* request of every destination succeeded; after a publish request that
\* failed the run does not persist a new last_open.
C6_WatermarkOnlyAfterPublish ==
    Succeeded => ~run.failed

\* C10: a failure at the draft, upload or publish request of a destination
\* does not keep the remaining destinations from being attempted: a run that
\* reaches upload sends requests for every destination of attached_to.
C10_EveryDestinationAttempted ==
    (pc = "idle" /\ attached_to[1] \in run.requested) =>
        Destinations \subseteq run.requested

----------------------------------------------------------------------------
(* Claims on the requests of get_token *)

\* the number of requests of one kind among the requests of a call
Count(calls, kind) == Cardinality({n \in 1..Len(calls) : calls[n] = kind})

\* C19: one call of get_token sends at most one validation probe and at most
\* one login request, the probe before the login, sends no login request
\* when the cached token validates, and sends no second login request when
\* the login fails.
C19_OneProbeOneLogin ==
    call.op = "get_token" =>
        /\ Count(call.calls, "probe") <= 1
        /\ Count(call.calls, "login") <= 1
        /\ call.calls \in {<<>>, <<"probe">>, <<"login">>, <<"probe", "login">>}
        /\ (~call.probe.raised /\ CachedTokenValid(call.configured, call.pre, call.probe))
               => call.calls = <<"probe">>
        /\ call.kind = "exit" => Count(call.calls, "login") = 1

C19_Witness ==
    /\ call.op = "get_token"
    /\ call.kind = "exit"
    /\ call.login.status = 401
    /\ call.calls = <<"probe", "login">>

----------------------------------------------------------------------------
(* Claims on the cache across the runs of main *)

\* C12: in every reachable state the cache document maps its keys to
\* strings: no key, "token" in particular, holds null, also after a run in
\* which get_token got no token and ended with SystemExit.
C12_CacheValuesAreStrings ==
    cache.state = "ok" =>
        \A k \in DOMAIN cache.doc : k = "last_open" \/ cache.doc[k] # None

\* the last_open entry of the cache file, if it has one
Watermark(c) ==
    IF c.state = "ok" /\ "last_open" \in DOMAIN c.doc THEN <<c.doc["last_open"]>>
    ELSE <<>>

\* the places of main after get_token and before upload
BeforeUpload == pc \in {"last_update", "fetch", "entities"}

\* C11: a failure after the token was acquired and before upload (at the
\* fetch of the updates, their reconciliation or the retrieval of the
\* entities) ends the run with no request of upload sent and last_open as it
\* was, while the cache's token entry holds the token acquired in this run.
C11_AbortBeforePublish ==
    [][/\ (pc = "idle" /\ pc' = "last_update") =>
              /\ Watermark(cache') = Watermark(cache)
              /\ cache'.state = "ok"
              /\ cache'.doc["token"] = run'.token
       /\ BeforeUpload =>
              /\ Watermark(cache') = Watermark(cache)
              /\ cache'.state = "ok"
              /\ cache'.doc["token"] = run.token
              /\ pc' = "idle" => run'.requested \cap Destinations = {}
              /\ pc' = "idle" => server' = server]_vars

C11_Witness ==
    /\ pc = "idle"
    /\ run.outcome = "raise"
    /\ run.requested = {"probe", "login", "form1", "form2", "attachment"}
    /\ cache.state = "ok"
    /\ cache.doc["token"] = "t2"
    /\ Watermark(cache) = <<isoformat(MsPerSec - 3)>>

----------------------------------------------------------------------------
(* Claims on the update forms that give no data *)

\* the response is malformed or its result is empty
NoData(response) ==
    \/ response.kind \in {"not json", "malformed"}
    \/ response.kind = "value" /\ Len(response.value) = 0

\* C15: a malformed response or an empty result of one update form does not
\* end the run: the form is skipped, and the records of the other forms are
\* reconciled (stated for the runs in which no request raises).
C15_SkippedSourceIsNotFatal ==
    (/\ recon.stage \notin {"none", "responses"}
     /\ \A i \in 1..Len(recon.responses) : recon.responses[i].kind # "raise"
     /\ \E i \in 1..Len(recon.responses) : NoData(recon.responses[i]))
    => /\ recon.stage # "raised"
       /\ (\E j \in 1..Len(recon.responses) : ~NoData(recon.responses[j]))
              => /\ Reconciled
                 /\ {recon.updates.rows[i][KEY] : i \in 1..Len(recon.updates.rows)}
                        = {Record(p)[KEY] : p \in Fetched}

----------------------------------------------------------------------------
(* Claims on the submissions and the watermark *)

\* the step of main that writes the new last_open
WritesLastOpen == pc = "draft" /\ pc' = "idle" /\ run'.outcome = "success"

\* C16: when a run advances last_open to W, every submission of an update
\* form that is not rejected and is dated at or before W was returned to
\* this run or to an earlier one: none is left behind the watermark.
C16_NoSubmissionLost ==
    [][WritesLastOpen =>
           \A s \in server.submissions :
               (~s.rejected /\ s.time <= isoparse(cache'.doc["last_open"]))
                   => s.id \in run.fetched \cup run.seen]_vars

\* the submissions of the update forms that are not rejected
Eligible == {s.id : s \in {x \in server.submissions : ~x.rejected}}

\* C17: a submission that was returned to a run that then wrote last_open is
\* returned to no later run; so a run that starts when every eligible
\* submission was processed finds no updates and sends no request for the
\* entities and none of upload.
C17_NoSubmissionFetchedTwice ==
    /\ run.fetched \cap run.processed = {}
    /\ (pc # "idle" /\ Eligible \subseteq run.processed) =>
           /\ run.fetched = {}
           /\ pc \in {"last_update", "fetch"}

C17_Witness ==
    /\ pc = "idle"
    /\ run.runs = 2
    /\ run.outcome = "no updates"
    /\ run.processed = {1, 2}
    /\ Eligible = {1, 2}

----------------------------------------------------------------------------
(* Claims on upload *)

\* the three requests for one destination, in their order
Steps == <<"draft", "attachment", "publish">>

\* the first n requests of upload for the destinations of attached_to
UploadCalls(n) ==
    [k \in 1..n |-> <<attached_to[((k - 1) \div Len(Steps)) + 1],
                      Steps[((k - 1) % Len(Steps)) + 1]>>]

\* upload is under way, or over and last_open not yet written
Uploading == pc \in {"draft", "attachment", "publish"}

\* C18: upload sends, for the destinations in the order of attached_to, the
\* three requests open draft, upload attachment, publish draft, all three for
\* one destination before any for the next; all of them are sent when upload
\* is over, and no attachment or publish request for a destination comes
\* before the request that opens its draft.
C18_DraftUploadPublishInOrder ==
    /\ run.log = UploadCalls(Len(run.log))
    /\ Len(run.log) <= Len(attached_to) * Len(Steps)
    /\ Uploading =>
           \E k \in 1..Len(Steps) :
               /\ Steps[k] = pc
               /\ Len(run.log) = (run.d - 1) * Len(Steps) + (k - 1)
    /\ (pc = "draft" /\ run.d > Len(attached_to)) =>
           Len(run.log) = Len(attached_to) * Len(Steps)
    /\ \A n \in 1..Len(run.log) :
           run.log[n][2] # "draft" =>
               \E m \in 1..(n - 1) : run.log[m] = <<run.log[n][1], "draft">>

C18_Witness ==
    /\ pc = "draft"
    /\ run.d > Len(attached_to)
    /\ run.failed
    /\ run.log = <<<<"dest1", "draft">>, <<"dest1", "attachment">>,
                   <<"dest1", "publish">>, <<"dest2", "draft">>,
                   <<"dest2", "attachment">>, <<"dest2", "publish">>>>

\* the attachment with the values of the update rows written over its cells
Applied(table, updates) ==
    [n \in DOMAIN table |-> [c \in DOMAIN table[n] |->
        LET given == {i \in 1..Len(updates.rows) :
                         /\ updates.rows[i][KEY] = n
                         /\ c \in updates.cols \ {KEY}
                         /\ updates.rows[i][c] \notin {NaN, None}}
        IN  IF given = {} THEN table[n][c]
            ELSE updates.rows[CHOOSE i \in given : TRUE][c]]]

\* C20: the content upload sends is the attachment of attached_to[0] with
\* the reconciled updates applied, and after an upload whose requests all
\* succeeded every destination holds that content, whatever the other
\* destinations held before.
C20_AllDestinationsHoldUpdatedTable ==
    /\ (pc = "draft" /\ run.log = <<>>) =>
           run.csv = Applied(server.published[attached_to[1]], run.updates)
    /\ (pc = "draft" /\ run.d > Len(attached_to) /\ ~run.failed) =>
           \A dest \in Destinations : server.published[dest] = run.csv

C20_Witness ==
    /\ pc = "draft"
    /\ run.d > Len(attached_to)
    /\ ~run.failed
    /\ run.runs = 1
    /\ run.csv["k1"]["f1"] = "x"
    /\ run.csv["k1"]["f2"] = "y"
    /\ server.published[attached_to[2]] = run.csv

----------------------------------------------------------------------------
(* Claims on the watermark a run reads *)

\* the run has read last_open
HasRead == pc \in {"fetch", "entities", "draft", "attachment", "publish"}

\* C14: get_last_update_timestamp returns the last_open of the cache when
\* the file exists and has the key, and 1970-01-01T00:00:00Z when the file
\* is absent or the key is missing; so the watermark a run reads is the one
\* the last successful run wrote (the epoch if there was none), although
\* get_token rewrote the token entry in between.
C14_ReadsPersistedWatermark ==
    /\ (call.op = "get_last_update_timestamp" /\ call.pre.state # "malformed") =>
           /\ ~call.raised
           /\ call.value = IF call.pre.state = "ok" /\ "last_open" \in DOMAIN call.pre.doc
                            THEN call.pre.doc["last_open"] ELSE EPOCH
    /\ HasRead =>
           /\ run.last_update_timestamp =
                  IF "last_open" \in DOMAIN cache.doc THEN cache.doc["last_open"]
                  ELSE EPOCH
           /\ run.last_update_timestamp =
                  IF run.persisted = <<>> THEN EPOCH ELSE run.persisted[1]

C14_Witness ==
    /\ pc = "fetch"
    /\ run.runs = 2
    /\ run.persisted = <<isoformat(MsPerSec)>>
    /\ run.last_update_timestamp = <<1, 0>>
    /\ run.requested = {"probe", "login"}
    /\ cache.doc["token"] = "t2"


====
